---------------------------- MODULE Spec2Model ----------------------------
(***************************************************************************)
(* rebuild_certificate.py: a one-shot pipeline that fetches a host's leaf  *)
(* certificate, finds the issuer URL in its AIA extension, downloads the   *)
(* issuer, normalises it to PEM, appends it to the certifi root store and  *)
(* verifies the host against the resulting bundle.                         *)
(*                                                                         *)
(* The state is the working directory .cert_work (four files that survive  *)
(* from one run of the script to the next), the position of main, its      *)
(* local variable url, the exception that ended the run and what was       *)
(* printed.  The external tools (openssl s_client, openssl x509, curl) are *)
(* the environment: their exit status and output are chosen with \E.       *)
(*                                                                         *)
(* Byte strings are sequences of chunks:                                   *)
(*   "B"  the 27 bytes  -----BEGIN CERTIFICATE-----                        *)
(*   "E"  the 25 bytes  -----END CERTIFICATE-----                          *)
(*   "D"  200 bytes of binary DER (starts 0x30 0x82: not valid UTF-8)      *)
(*   "T"  200 bytes of text without a marker (base64, HTML, ...)           *)
(*   "N"  one newline                                                      *)
(***************************************************************************)
EXTENDS Integers, Sequences, FiniteSets, TLC

VARIABLES
    pc,         \* the statement of main that runs next, "done" or "failed"
    runNo,      \* how many times the script was started over this .cert_work
    leaf,       \* .cert_work/leaf.pem
    issuerBin,  \* .cert_work/issuer.bin
    issuerPem,  \* .cert_work/issuer.pem
    bundle,     \* .cert_work/bundle-with-intermediate.pem
    url,        \* main's local variable url
    error,      \* the exception that terminated the run, NoError if none
    errTail,    \* the "Last lines" part of the verification error message
    printed,    \* TRUE once the "Bundle ready" lines were printed
    started,    \* history: the stages called so far in this run, in order
    completed,  \* history: the stages that returned normally in this run
    http,       \* history: final HTTP status curl saw in this run, 0 if none
    roots,      \* history: the certifi text build_bundle read in this run
    client,     \* history: what the verifying s_client printed in this run
    caFile,     \* history: the file the verifying s_client got as -CAfile
    derInvoked, \* history: TRUE once openssl x509 -inform DER ran in this run
    reads       \* history: <<stage, file, written in this run>> per file read

vars == <<pc, runNo, leaf, issuerBin, issuerPem, bundle, url, error, errTail,
          printed, started, completed, http, roots, client, caFile,
          derInvoked, reads>>

---------------------------------------------------------------------------
(* Bounds of the model *)

MaxRuns == 2        \* runs of the script over the same working directory
PipeAIA == 1        \* access descriptions in the leaf's AIA, whole pipeline
MaxAIA == 3         \* access descriptions in the leaf's AIA, locator on its own
MaxRespLen == 2     \* chunks in an HTTP response body, whole pipeline
MaxBody == 4        \* chunks in issuer.bin, normaliser on its own
PipeLines == 1      \* lines on stdout / stderr of the verifier, whole pipeline
MaxStdout == 3      \* lines on stdout of the verifier, verifier on its own
MaxStderr == 3      \* lines on stderr of the verifier, verifier on its own

(* Program constants *)

MinIssuerSize == 200    \* download_issuer: st_size < 200
TailLines == 5          \* verify_bundle: splitlines()[-5:]

---------------------------------------------------------------------------
(* Sequences *)

SeqsUpTo(S, n) == UNION {[1..k -> S] : k \in 0..n}

Contains(s, x) == \E i \in 1..Len(s) : s[i] = x

Count(s, x) == Cardinality({i \in 1..Len(s) : s[i] = x})

LastN(s, n) == IF Len(s) <= n THEN s ELSE SubSeq(s, Len(s) - n + 1, Len(s))

---------------------------------------------------------------------------
(* Files of the working directory.  fresh tells that the file was written  *)
(* in the current run of the script; it is bookkeeping of the model, not   *)
(* file content.                                                           *)

NoFile == [exists |-> FALSE, data |-> <<>>, fresh |-> FALSE]

Written(d) == [exists |-> TRUE, data |-> d, fresh |-> TRUE]

\* The file as the next run of the script finds it.
LeftOver(f) == [f EXCEPT !.fresh = FALSE]

ChunkSize(c) ==
    CASE c = "B" -> 27
      [] c = "E" -> 25
      [] c = "D" -> 200
      [] c = "T" -> 200
      [] OTHER -> 1

RECURSIVE StSize(_)
StSize(d) == IF d = <<>> THEN 0 ELSE ChunkSize(Head(d)) + StSize(Tail(d))

BodyChunks == {"B", "E", "D", "T"}

Bodies(n) == SeqsUpTo(BodyChunks, n)

---------------------------------------------------------------------------
(* Exceptions *)

NoError == "none"
ExtractionError == "RuntimeError: Could not extract leaf certificate from openssl output."
MissingAIAError == "RuntimeError: No 'CA Issuers' AIA URL found in leaf certificate."
DownloadError == "RuntimeError: Issuer download failed or file is too small."
ConversionError == "RuntimeError: DER->PEM conversion did not produce a PEM certificate."
VerificationFailedError == "RuntimeError: Bundle verification failed."
CalledProcessError == "subprocess.CalledProcessError"
UnicodeDecodeError == "UnicodeDecodeError"

---------------------------------------------------------------------------
(* main *)

StageOrder == <<"fetch_leaf_cert", "extract_aia_issuer_url", "download_issuer",
                "issuer_to_pem", "build_bundle", "verify_bundle">>

\* main with build_bundle called before issuer_to_pem.
NextStageBuildFirst(s) ==
    CASE s = "fetch_leaf_cert" -> "extract_aia_issuer_url"
      [] s = "extract_aia_issuer_url" -> "download_issuer"
      [] s = "download_issuer" -> "build_bundle"
      [] s = "build_bundle" -> "issuer_to_pem"
      [] s = "issuer_to_pem" -> "verify_bundle"
      [] s = "verify_bundle" -> "print"

\* The statement main runs after the call of stage s returned normally.
NextStage(s) ==
    CASE s = "fetch_leaf_cert" -> "extract_aia_issuer_url"
      [] s = "extract_aia_issuer_url" -> "download_issuer"
      [] s = "download_issuer" -> "issuer_to_pem"
      [] s = "issuer_to_pem" -> "build_bundle"
      [] s = "build_bundle" -> "verify_bundle"
      [] s = "verify_bundle" -> "print"

\* Stage s is called: main is at it.
Call(s) ==
    /\ pc = s
    /\ started' = Append(started, s)

\* Stage s returns normally.
Return(s) ==
    /\ pc' = NextStage(s)
    /\ completed' = Append(completed, s)
    /\ error' = NoError

\* Stage s raises e: nothing in main catches it, the process exits.
Raise(e) ==
    /\ pc' = "failed"
    /\ completed' = completed
    /\ error' = e

---------------------------------------------------------------------------
(* The leaf certificate and its text dump (openssl x509 -noout -text) *)

CAIssuersURI == "CA Issuers - URI:"
OCSPURI == "OCSP - URI:"

\* URIs are non-empty and hold no white space (RFC 3986).
URIs == {"http://a.test/issuer.crt", "http://b.test/issuer.crt"}

\* An access description of the AIA extension: <<rendered label, URI>>.
AccessDescriptions == ({CAIssuersURI} \X URIs) \cup {<<OCSPURI, "http://a.test/ocsp">>}

\* A certificate is known by the AIA access descriptions it carries.
Certs(n) == SeqsUpTo(AccessDescriptions, n)

\* The dump as words: per access description its label, its URI, a newline.
RECURSIVE TextDump(_)
TextDump(cert) ==
    IF cert = <<>> THEN <<"N">>
    ELSE <<Head(cert)[1], Head(cert)[2], "N">> \o TextDump(Tail(cert))

IsSpace(w) == w = "N"

\* The longest run of non-space words of text from position i on: (\S+).
RECURSIVE NonSpaceRun(_, _)
NonSpaceRun(text, i) ==
    IF i > Len(text) \/ IsSpace(text[i]) THEN <<>>
    ELSE <<text[i]>> \o NonSpaceRun(text, i + 1)

\* Where r"CA Issuers - URI:(\S+)" matches in text.
AIAMatches(text) ==
    {i \in 1..Len(text) : text[i] = CAIssuersURI /\ NonSpaceRun(text, i + 1) # <<>>}

\* The rightmost match instead of the leftmost.
AIASearchLast(text) ==
    CHOOSE i \in AIAMatches(text) : \A j \in AIAMatches(text) : i >= j

\* re.search takes the leftmost match.
AIASearch(text) ==
    CHOOSE i \in AIAMatches(text) : \A j \in AIAMatches(text) : i <= j

NoUrl == <<>>

fetch_leaf_given(Presented) ==
    /\ Call("fetch_leaf_cert")
    /\ \/ \* s_client exits non-zero: run(check=True) raises
          /\ Raise(CalledProcessError)
          /\ leaf' = leaf
       \/ \* no certificate block in stdout
          /\ Raise(ExtractionError)
          /\ leaf' = leaf
       \/ \* the first certificate block of stdout is written to leaf.pem
          \E c \in Presented :
            /\ leaf' = Written(c)
            /\ Return("fetch_leaf_cert")
    /\ UNCHANGED <<runNo, issuerBin, issuerPem, bundle, url, errTail, printed,
                   http, roots, client, caFile, derInvoked, reads>>

fetch_leaf_cert == fetch_leaf_given(Certs(PipeAIA))

extract_aia_issuer_url ==
    /\ Call("extract_aia_issuer_url")
    /\ reads' = reads \cup {<<"extract_aia_issuer_url", "leaf.pem", leaf.fresh>>}
    /\ LET text == TextDump(leaf.data) IN
         IF AIAMatches(text) = {}
         THEN /\ Raise(MissingAIAError)
              /\ url' = url
         ELSE /\ url' = NonSpaceRun(text, AIASearch(text) + 1)
              /\ Return("extract_aia_issuer_url")
    /\ UNCHANGED <<runNo, leaf, issuerBin, issuerPem, bundle, errTail, printed,
                   http, roots, client, caFile, derInvoked>>

---------------------------------------------------------------------------
(* download_issuer: curl -L url -o issuer.bin *)

HttpStatuses == {200, 404}

\* A curl that leaves the output file alone when the body is empty.
CurlSaveSkipsEmpty(old, body) == IF body = <<>> THEN old ELSE Written(body)

\* curl without --fail exits 0 on every HTTP status and saves the body of the
\* final response; an empty body still creates (truncates) the output file.
CurlSave(old, body) == Written(body)

\* not ISSUER_BIN.exists() or ISSUER_BIN.stat().st_size < 200
DownloadImplausible(f) == ~f.exists \/ StSize(f.data) < MinIssuerSize

download_issuer ==
    /\ Call("download_issuer")
    /\ \/ \* no response (DNS, connect, TLS): curl exits non-zero, check=True raises
          /\ Raise(CalledProcessError)
          /\ UNCHANGED <<issuerBin, http, reads>>
       \/ \* the transfer breaks off after part of the body was saved
          \E b \in Bodies(MaxRespLen) :
            /\ Raise(CalledProcessError)
            /\ issuerBin' = Written(b)
            /\ UNCHANGED <<http, reads>>
       \/ \* a final response arrives, curl exits 0
          \E s \in HttpStatuses, b \in Bodies(MaxRespLen) :
            /\ http' = s
            /\ issuerBin' = CurlSave(issuerBin, b)
            /\ reads' = reads \cup {<<"download_issuer", "issuer.bin", issuerBin'.fresh>>}
            /\ IF DownloadImplausible(issuerBin')
               THEN Raise(DownloadError)
               ELSE Return("download_issuer")
    /\ UNCHANGED <<runNo, leaf, issuerPem, bundle, url, errTail, printed,
                   roots, client, caFile, derInvoked>>

---------------------------------------------------------------------------
(* issuer_to_pem *)

FileNotFoundError == "FileNotFoundError"

\* b"-----BEGIN CERTIFICATE-----" in data
HasPemMarker(data) == Contains(data, "B")

NotDer(c) == c # "D"

\* The copy goes through text: bytes that do not decode are dropped.
PemCopyAsText(data) == SelectSeq(data, NotDer)

\* ISSUER_PEM.write_bytes(data)
PemCopy(data) == data

\* openssl x509 -inform DER reads one DER certificate from the start of the
\* input and ignores what follows it.
DerParses(data) == data # <<>> /\ Head(data) = "D"

\* openssl x509 -out: the base64 of the certificate between the two markers.
DerToPem(data) == <<"B", "T", "E", "N">>

\* What a failed openssl x509 leaves at -out: the old file, or an empty one
\* when the build opens the output before it loads the certificate.
X509FailureLeaves(old) == {old, Written(<<>>)}

\* "BEGIN CERTIFICATE" not in ISSUER_PEM.read_text(errors="ignore")
PemCheckFails(f) == ~f.exists \/ ~Contains(f.data, "B")

issuer_to_pem ==
    /\ Call("issuer_to_pem")
    /\ IF ~issuerBin.exists
       THEN /\ Raise(FileNotFoundError)
            /\ UNCHANGED <<issuerPem, derInvoked, reads>>
       ELSE LET data == issuerBin.data
                readBin == <<"issuer_to_pem", "issuer.bin", issuerBin.fresh>>
            IN  IF HasPemMarker(data)
                THEN \* already PEM
                     /\ issuerPem' = Written(PemCopy(data))
                     /\ derInvoked' = derInvoked
                     /\ reads' = reads \cup {readBin}
                     /\ Return("issuer_to_pem")
                ELSE \* assume DER, convert
                     /\ derInvoked' = TRUE
                     /\ IF DerParses(data)
                        THEN /\ issuerPem' = Written(DerToPem(data))
                             /\ reads' = reads \cup
                                  {readBin, <<"issuer_to_pem", "issuer.pem", issuerPem'.fresh>>}
                             /\ IF PemCheckFails(issuerPem')
                                THEN Raise(ConversionError)
                                ELSE Return("issuer_to_pem")
                        ELSE /\ issuerPem' \in X509FailureLeaves(issuerPem)
                             /\ reads' = reads \cup {readBin}
                             /\ Raise(CalledProcessError)
    /\ UNCHANGED <<runNo, leaf, issuerBin, bundle, url, errTail, printed,
                   http, roots, client, caFile>>

---------------------------------------------------------------------------
(* build_bundle *)

\* Path(certifi.where()).read_text(): concatenated root certificates.
RootStores == {<<"B", "T", "E", "N">>, <<"B", "T", "E", "N", "B", "T", "E", "N">>}

\* read_text(encoding="utf-8") raises on bytes that are not UTF-8.
Utf8(data) == ~Contains(data, "D")

\* roots + "\n" + issuer + "\n"
BundleText(r, issuer) == r \o <<"N">> \o issuer \o <<"N">>

build_bundle ==
    /\ Call("build_bundle")
    /\ \E r \in RootStores :
         /\ roots' = r
         /\ IF ~issuerPem.exists
            THEN /\ Raise(FileNotFoundError)
                 /\ UNCHANGED <<bundle, reads>>
            ELSE /\ reads' = reads \cup {<<"build_bundle", "issuer.pem", issuerPem.fresh>>}
                 /\ IF Utf8(issuerPem.data)
                    THEN /\ bundle' = Written(BundleText(r, issuerPem.data))
                         /\ Return("build_bundle")
                    ELSE /\ bundle' = bundle
                         /\ Raise(UnicodeDecodeError)
    /\ UNCHANGED <<runNo, leaf, issuerBin, issuerPem, url, errTail, printed,
                   http, client, caFile, derInvoked>>

---------------------------------------------------------------------------
(* verify_bundle: openssl s_client -CAfile bundle -verify_return_error *)

\* A line of the client's output: the success line "Verify return code: 0 (ok)",
\* any other non-blank line, or a blank line.
LineKinds == {"OK", "X", ""}

Lines(n) == SeqsUpTo(LineKinds, n)

\* str.strip() takes the blank lines off both ends.
RECURSIVE LStrip(_)
LStrip(ls) == IF ls # <<>> /\ Head(ls) = "" THEN LStrip(Tail(ls)) ELSE ls

RECURSIVE RStrip(_)
RStrip(ls) ==
    IF ls # <<>> /\ ls[Len(ls)] = "" THEN RStrip(SubSeq(ls, 1, Len(ls) - 1)) ELSE ls

\* (p.stdout + "\n" + p.stderr).strip().splitlines()[-5:]
\* Every line of stdout ends in a newline, so the added "\n" is a blank line.
ClientTail(stdout, stderr) ==
    LastN(RStrip(LStrip(stdout \o <<"">> \o stderr)), TailLines)

\* The check accepts any output that has lines at all.
VerifyOkAnyLine(tail) == tail # <<>>

\* "Verify return code: 0 (ok)" in joined
VerifyOk(tail) == Contains(tail, "OK")

verify_bundle_given(Outs, Errs) ==
    /\ Call("verify_bundle")
    /\ \E so \in Outs, se \in Errs :
         /\ client' = [ran |-> TRUE, stdout |-> so, stderr |-> se]
         /\ caFile' = bundle
         /\ reads' = reads \cup {<<"verify_bundle", "bundle-with-intermediate.pem", bundle.fresh>>}
         /\ IF VerifyOk(ClientTail(so, se))
            THEN /\ errTail' = <<>>
                 /\ Return("verify_bundle")
            ELSE /\ errTail' = ClientTail(so, se)
                 /\ Raise(VerificationFailedError)
    /\ UNCHANGED <<runNo, leaf, issuerBin, issuerPem, bundle, url, printed,
                   http, roots, derInvoked>>

verify_bundle == verify_bundle_given(Lines(PipeLines), Lines(PipeLines))

\* main, lines 111-113
print_bundle_ready ==
    /\ pc = "print"
    /\ printed' = TRUE
    /\ pc' = "done"
    /\ UNCHANGED <<runNo, leaf, issuerBin, issuerPem, bundle, url, error, errTail,
                   started, completed, http, roots, client, caFile, derInvoked, reads>>

\* The script is executed again: a new process over the same .cert_work.
StartRun ==
    /\ pc \in {"done", "failed"}
    /\ runNo < MaxRuns
    /\ runNo' = runNo + 1
    /\ pc' = "fetch_leaf_cert"
    /\ url' = NoUrl
    /\ error' = NoError
    /\ errTail' = <<>>
    /\ printed' = FALSE
    /\ started' = <<>>
    /\ completed' = <<>>
    /\ http' = 0
    /\ roots' = <<>>
    /\ client' = [ran |-> FALSE, stdout |-> <<>>, stderr |-> <<>>]
    /\ caFile' = NoFile
    /\ derInvoked' = FALSE
    /\ reads' = {}
    /\ leaf' = LeftOver(leaf)
    /\ issuerBin' = LeftOver(issuerBin)
    /\ issuerPem' = LeftOver(issuerPem)
    /\ bundle' = LeftOver(bundle)

---------------------------------------------------------------------------
(* The whole pipeline, run after run *)

Init ==
    /\ pc = "fetch_leaf_cert"
    /\ runNo = 1
    /\ leaf = NoFile
    /\ issuerBin = NoFile
    /\ issuerPem = NoFile
    /\ bundle = NoFile
    /\ url = NoUrl
    /\ error = NoError
    /\ errTail = <<>>
    /\ printed = FALSE
    /\ started = <<>>
    /\ completed = <<>>
    /\ http = 0
    /\ roots = <<>>
    /\ client = [ran |-> FALSE, stdout |-> <<>>, stderr |-> <<>>]
    /\ caFile = NoFile
    /\ derInvoked = FALSE
    /\ reads = {}

Next ==
    \/ fetch_leaf_cert
    \/ extract_aia_issuer_url
    \/ download_issuer
    \/ issuer_to_pem
    \/ build_bundle
    \/ verify_bundle
    \/ print_bundle_ready
    \/ StartRun

Spec == Init /\ [][Next]_vars

---------------------------------------------------------------------------
(* fetch_leaf_cert and extract_aia_issuer_url given any leaf, and the      *)
(* download that follows a located URL                                     *)

fetch_leaf_any == fetch_leaf_given(Certs(MaxAIA))

NextAIA ==
    \/ fetch_leaf_any
    \/ extract_aia_issuer_url
    \/ download_issuer

SpecAIA == Init /\ [][NextAIA]_vars

---------------------------------------------------------------------------
(* issuer_to_pem and build_bundle on their own, given any issuer.bin *)

InitIssuer ==
    /\ pc = "issuer_to_pem"
    /\ runNo = 1
    /\ leaf = NoFile
    /\ issuerBin \in {Written(b) : b \in Bodies(MaxBody)}
    /\ issuerPem = NoFile
    /\ bundle = NoFile
    /\ url = NoUrl
    /\ error = NoError
    /\ errTail = <<>>
    /\ printed = FALSE
    /\ started = <<>>
    /\ completed = <<>>
    /\ http = 0
    /\ roots = <<>>
    /\ client = [ran |-> FALSE, stdout |-> <<>>, stderr |-> <<>>]
    /\ caFile = NoFile
    /\ derInvoked = FALSE
    /\ reads = {}

NextIssuer ==
    \/ issuer_to_pem
    \/ build_bundle

SpecIssuer == InitIssuer /\ [][NextIssuer]_vars

---------------------------------------------------------------------------
(* verify_bundle on its own, given a built bundle and any client output *)

verify_bundle_any == verify_bundle_given(Lines(MaxStdout), Lines(MaxStderr))

InitVerify ==
    /\ pc = "verify_bundle"
    /\ runNo = 1
    /\ leaf = NoFile
    /\ issuerBin = NoFile
    /\ issuerPem = Written(<<"B", "T", "E", "N">>)
    /\ roots \in RootStores
    /\ bundle = Written(BundleText(roots, issuerPem.data))
    /\ url = NoUrl
    /\ error = NoError
    /\ errTail = <<>>
    /\ printed = FALSE
    /\ started = <<>>
    /\ completed = <<>>
    /\ http = 0
    /\ client = [ran |-> FALSE, stdout |-> <<>>, stderr |-> <<>>]
    /\ caFile = NoFile
    /\ derInvoked = FALSE
    /\ reads = {}

NextVerify ==
    \/ verify_bundle_any
    \/ print_bundle_ready

SpecVerify == InitVerify /\ [][NextVerify]_vars


---------------------------------------------------------------------------
(* Properties *)

IsPrefix(s, t) == Len(s) <= Len(t) /\ s = SubSeq(t, 1, Len(s))

Ran(stage) == Contains(started, stage)

Returned(stage) == Contains(completed, stage)

\* The verifying client printed the line "Verify return code: 0 (ok)".
ClientReportedSuccess ==
    client.ran /\ (Contains(client.stdout, "OK") \/ Contains(client.stderr, "OK"))

\* Some BEGIN CERTIFICATE marker is followed by an END CERTIFICATE marker.
HasCertBlock(data) ==
    \E i \in 1..Len(data), j \in 1..Len(data) : i < j /\ data[i] = "B" /\ data[j] = "E"

BeginsWithPemMarker(data) == data # <<>> /\ Head(data) = "B"

\* C1: the stages of a run start in the order of StageOrder, a stage starts
\* only when all stages before it have returned normally, and after a stage
\* has failed (it was started and did not return) no stage is started in
\* that run.
C1_StagesInOrder ==
    /\ [](/\ IsPrefix(started, StageOrder)
          /\ IsPrefix(completed, started)
          /\ Len(started) <= Len(completed) + 1)
    /\ [][(Len(completed) < Len(started) /\ started' # <<>>) => started' = started]_vars

C1_Witness == completed = StageOrder

\* C2: the success lines are printed only in a run in which all six stages
\* returned and the verifying client, given the bundle this run wrote as its
\* CA file, reported success; every run that ends otherwise ends in an
\* exception and prints nothing.
C2_SuccessOnlyIfVerified ==
    /\ printed =>
         /\ completed = StageOrder
         /\ ClientReportedSuccess
         /\ caFile.exists /\ caFile.fresh /\ caFile = bundle
    /\ (pc \in {"done", "failed"} /\ ~(completed = StageOrder /\ ClientReportedSuccess)) =>
         /\ pc = "failed"
         /\ error # NoError
         /\ ~printed
    /\ pc = "done" => printed

C2_Witness == pc = "done" /\ printed /\ ClientReportedSuccess

\* C3: when the GET ends in a non-2xx status, download_issuer raises the
\* download error, no later stage runs and this run writes no bundle.
C3_Non2xxFailsDownload ==
    (http # 0 /\ http \notin 200..299) =>
        /\ pc = "failed"
        /\ error = DownloadError
        /\ started = SubSeq(StageOrder, 1, 3)
        /\ ~bundle.fresh

\* C4: a run that ended in failure has not written the final bundle.
C4_NoBundleOnFailure == pc = "failed" => ~bundle.fresh

\* C5: a bundle written by build_bundle is the root store read, followed by
\* exactly one BEGIN CERTIFICATE / END CERTIFICATE pair.
C5_BundleShape ==
    Returned("build_bundle") =>
        /\ IsPrefix(roots, bundle.data)
        /\ LET rest == SubSeq(bundle.data, Len(roots) + 1, Len(bundle.data)) IN
             /\ Count(rest, "B") = 1
             /\ Count(rest, "E") = 1
             /\ HasCertBlock(rest)

\* C6: after issuer_to_pem returned, issuer.pem holds a certificate block;
\* when it did not return it raised the conversion error (its own, or the
\* one of the failed openssl x509).
C6_IssuerPemHasBlock ==
    /\ Returned("issuer_to_pem") => HasCertBlock(issuerPem.data)
    /\ (Ran("issuer_to_pem") /\ ~Returned("issuer_to_pem")) =>
         error \in {ConversionError, CalledProcessError}

\* C7: verify_bundle raises the verification error exactly when the client
\* did not report success, returns exactly when it did, and the message of
\* the error carries the last lines of the client's output.
C7_VerifyIffReported ==
    client.ran =>
        /\ Returned("verify_bundle") <=> ClientReportedSuccess
        /\ error = VerificationFailedError <=> ~ClientReportedSuccess
        /\ error = VerificationFailedError =>
             errTail = ClientTail(client.stdout, client.stderr)

\* The access descriptions of cert that are CA Issuers URIs, by position.
CAIssuersAt(cert) == {i \in 1..Len(cert) : cert[i][1] = CAIssuersURI}

FirstCAIssuers(cert) ==
    cert[CHOOSE i \in CAIssuersAt(cert) : \A j \in CAIssuersAt(cert) : i <= j][2]

\* C8: extract_aia_issuer_url returns the URI of the first CA Issuers entry of
\* the leaf; for a leaf without one it raises the missing-AIA error and no
\* further stage runs.
C8_FirstCAIssuersUrl ==
    Ran("extract_aia_issuer_url") =>
        IF CAIssuersAt(leaf.data) = {}
        THEN /\ pc = "failed"
             /\ error = MissingAIAError
             /\ started = SubSeq(StageOrder, 1, 2)
             /\ url = NoUrl
        ELSE /\ Returned("extract_aia_issuer_url")
             /\ url = <<FirstCAIssuers(leaf.data)>>

C8_Witness ==
    /\ Returned("extract_aia_issuer_url")
    /\ Len(leaf.data) = 2
    /\ CAIssuersAt(leaf.data) = {1, 2}
    /\ leaf.data[1][2] # leaf.data[2][2]
    /\ url = <<leaf.data[1][2]>>

\* C9: on an issuer.bin that begins with the PEM header marker, issuer_to_pem
\* writes issuer.pem equal to issuer.bin, does not run the DER conversion,
\* leaves issuer.bin as it was and returns.
C9_PemIsIdentity ==
    [][(pc = "issuer_to_pem" /\ issuerBin.exists /\ BeginsWithPemMarker(issuerBin.data)) =>
          /\ issuerPem'.exists
          /\ issuerPem'.data = issuerBin.data
          /\ issuerBin' = issuerBin
          /\ ~derInvoked'
          /\ pc' = "build_bundle"]_vars

C9_Witness ==
    /\ Returned("issuer_to_pem")
    /\ BeginsWithPemMarker(issuerBin.data)
    /\ HasCertBlock(issuerBin.data)
    /\ Contains(issuerBin.data, "D")
    /\ issuerPem.data = issuerBin.data

\* C10: every file a stage reads was written in the same run, and a bundle
\* written in a run is the root store plus the issuer.pem that this run made
\* from the issuer.bin this run downloaded.
C10_NoStaleArtifact ==
    /\ \A r \in reads : r[3]
    /\ (bundle.exists /\ bundle.fresh) =>
         /\ issuerBin.exists /\ issuerBin.fresh
         /\ issuerPem.exists /\ issuerPem.fresh
         /\ bundle.data = BundleText(roots, issuerPem.data)
         /\ issuerPem.data \in {issuerBin.data, DerToPem(issuerBin.data)}

C10_Witness ==
    /\ Returned("issuer_to_pem")
    /\ bundle.exists /\ ~bundle.fresh
    /\ issuerPem.data # bundle.data

=============================================================================
